---- MODULE Spec2Model ----
(***************************************************************************)
(* Dialog state machine, candidate discovery and reaction recording of the *)
(* VKinder bot.  Two program variants live in the repository:              *)
(*   "basic"  src/basic_code.py  (sex -> age onboarding, repositories of   *)
(*            src/core/base_repository.py, one unpaged search per call)    *)
(*   "body1"  src/bot_body1.py   (city -> age onboarding, src/repo.py,     *)
(*            paged search with a stored offset)                           *)
(* A behaviour is one run of one variant's event loop (VkinderBot.run).    *)
(* Spec explores the commands with few answers to the prompts, SpecAges    *)
(* the onboarding with many answers to the age prompt; in both a step is   *)
(* one message taken from the long poll and handled.  SpecLoop follows the *)
(* loop of run() itself: messages arrive, the loop takes the oldest one,   *)
(* and its handler returns.                                                *)
(* Texts are sequences of characters; Cyrillic letters and emoji are       *)
(* written as transliterated tokens ("zh" for the letter zhe, "(heart)").  *)
(***************************************************************************)
EXTENDS Integers, Sequences, FiniteSets, Bags, TLC

\* ------------------------------------------------------------------ bounds
NumUsers == 1
NumCands == 2
MaxEvents == 6
MaxEventsAges == 4
MaxPageLen == 2
MaxStartPage == 2
MaxEventsLoop == 4
MaxInbox == 2
\* The users and the messages of the runs with more than one user.
NumUsersTwo == 2
MaxEventsTwo == 5

Users == 1..NumUsers
Cands == 1..NumCands

\* ------------------------------------------------------- program constants
DEFAULT_CITY_ID == 1
AGE_DELTA == 5
AGE_MIN == 18
AGE_MAX == 99
PAGE_SIZE == 50
MAX_PAGES == 10

\* Python's None: in a field holding a word, a number, or a text.
None == "None"
NoneInt == -1
NoneText == <<"None">>

Max(a, b) == IF a >= b THEN a ELSE b
Min(a, b) == IF a <= b THEN a ELSE b

\* -------------------------------------------------------------------- text
Digits == {"0", "1", "2", "3", "4", "5", "6", "7", "8", "9"}

DigitVal(c) ==
    CASE c = "0" -> 0 [] c = "1" -> 1 [] c = "2" -> 2 [] c = "3" -> 3
      [] c = "4" -> 4 [] c = "5" -> 5 [] c = "6" -> 6 [] c = "7" -> 7
      [] c = "8" -> 8 [] c = "9" -> 9

\* str.lower() on the characters the inputs use.
LowerChar(c) ==
    CASE c = "D" -> "d" [] c = "N" -> "n" [] c = "S" -> "s" [] c = "V" -> "v"
      [] c = "ZH" -> "zh" [] c = "M" -> "m" [] c = "I" -> "i" [] c = "CH" -> "ch"
      [] OTHER -> c

Lower(s) == [i \in 1..Len(s) |-> LowerChar(s[i])]

RECURSIVE LStrip(_)
LStrip(s) == IF s # <<>> /\ Head(s) = " " THEN LStrip(Tail(s)) ELSE s

RECURSIVE RStrip(_)
RStrip(s) ==
    IF s # <<>> /\ s[Len(s)] = " " THEN RStrip(SubSeq(s, 1, Len(s) - 1)) ELSE s

\* str.strip()
Strip(s) == RStrip(LStrip(s))

\* `needle in hay` for strings
Contains(hay, needle) ==
    \E i \in 1..(Len(hay) - Len(needle) + 1) :
        SubSeq(hay, i, i + Len(needle) - 1) = needle

RECURSIVE DigitsValue(_, _)
DigitsValue(s, acc) ==
    IF s = <<>> THEN acc
    ELSE IF Head(s) = "_" THEN DigitsValue(Tail(s), acc)
    ELSE DigitsValue(Tail(s), 10 * acc + DigitVal(Head(s)))

\* int(text): optional sign, then digits with single underscores between
\* them; surrounding whitespace is ignored.  ok = FALSE is the ValueError.
ParseInt(text) ==
    LET s == Strip(text)
        signed == s # <<>> /\ Head(s) \in {"+", "-"}
        body == IF signed THEN Tail(s) ELSE s
        wellFormed ==
            /\ body # <<>>
            /\ \A i \in 1..Len(body) : body[i] \in Digits \cup {"_"}
            /\ body[1] \in Digits
            /\ body[Len(body)] \in Digits
            /\ \A i \in 1..(Len(body) - 1) : ~(body[i] = "_" /\ body[i + 1] = "_")
        magnitude == DigitsValue(body, 0)
    IN  IF wellFormed
        THEN [ok |-> TRUE,
              val |-> IF signed /\ Head(s) = "-" THEN 0 - magnitude ELSE magnitude]
        ELSE [ok |-> FALSE, val |-> 0]

\* ------------------------------------------------------------ message texts
\* Command words of run(), transliterated.
W_start == {<<"/", "s", "t", "a", "r", "t">>, <<"s", "t", "a", "r", "t">>,
            <<"n", "a", "ch", "a", "t", "'">>, <<"p", "r", "i", "v", "e", "t">>}
W_settings == {<<"(cycle)", " ", "s", "m", "e", "n", "i", "t", "'", " ",
                 "n", "a", "s", "t", "r", "o", "j", "k", "i">>,
               <<"s", "m", "e", "n", "i", "t", "'", " ",
                 "n", "a", "s", "t", "r", "o", "j", "k", "i">>,
               <<"n", "a", "s", "t", "r", "o", "j", "k", "i">>}
W_next == {<<"d", "a", "l", "'", "sh", "e">>, <<"n", "e", "x", "t">>}
W_favorite == {<<"(heart)", " ", "v", " ", "i", "z", "b", "r", "a", "n", "n", "o", "e">>,
               <<"v", " ", "i", "z", "b", "r", "a", "n", "n", "o", "e">>}
W_blacklist == {<<"(noentry)", " ", "v", " ", "ch", "s">>, <<"v", " ", "ch", "s">>,
                <<"ch", "s">>}
W_list == {<<"(star)", " ", "i", "z", "b", "r", "a", "n", "n", "o", "e">>,
           <<"i", "z", "b", "r", "a", "n", "n", "o", "e">>}

\* Substrings handle_sex looks for.
S_zhen == <<"zh", "e", "n">>
S_muzh == <<"m", "u", "zh">>
S_nevazh == <<"n", "e", "v", "a", "zh">>

\* Texts the users send.
T_start == <<"/", "s", "t", "a", "r", "t">>
T_settings == <<"n", "a", "s", "t", "r", "o", "j", "k", "i">>
T_next == <<"D", "a", "l", "'", "sh", "e">>
T_favorite == <<"(heart)", " ", "V", " ", "i", "z", "b", "r", "a", "n", "n", "o", "e">>
T_blacklist == <<"(noentry)", " ", "V", " ", "CH", "S">>
T_list == <<"(star)", " ", "I", "z", "b", "r", "a", "n", "n", "o", "e">>
T_other == <<"a", "b", "c">>
T_woman == <<"(woman)", " ", "ZH", "e", "n", "shch", "i", "n", "u">>
T_man == <<"(man)", " ", "M", "u", "zh", "ch", "i", "n", "u">>
T_any == <<"(people)", " ", "N", "e", "v", "a", "zh", "n", "o">>
T_man_or_woman == <<"m", "u", "zh", " ", "i", "l", "i", " ", "zh", "e", "n">>
Title_moskva == <<"M", "o", "s", "k", "v", "a">>
Title_spb == <<"S", "P", "b">>
T_25 == <<"2", "5">>
T_97 == <<" ", "9", "7", " ">>
T_150 == <<"1", "5", "0">>
T_17 == <<"1", "7">>

CommandTexts == {T_start, T_settings, T_next, T_favorite, T_blacklist, T_list, T_other}
SexTexts == {T_woman, T_man, T_any, T_man_or_woman}
Texts == CommandTexts \cup {T_woman, T_25}

\* Answers to the age prompt: numbers around the limits 18 and 99 and around
\* the ages whose band is clamped, and texts that int() treats specially.
AgeTexts ==
    {<<"1", "7">>, <<"1", "8">>, <<"1", "9">>, <<"2", "3">>, <<"2", "4">>,
     <<"3", "0">>, <<"9", "2">>, <<"9", "4">>, <<"9", "5">>, <<"9", "7">>,
     <<"9", "9">>, <<"1", "0", "0">>, <<"1", "5", "0">>, <<"9">>, <<"0">>}
    \cup {<<>>, <<"-", "2", "5">>, <<"+", "1", "9">>, <<"2", "_", "5">>,
          <<"2", "5", "_">>, <<" ", "3", "0", " ">>, <<"3", " ", "0">>,
          <<"0", "3", "0">>, <<"2", "5", ".", "0">>}

\* ---------------------------------------------------------------- VKSex
VKSex_WOMEN == 1
VKSex_MEN == 2
VKSex_ALL == 0

\* ------------------------------------------------------------------- state
VARIABLES
    variant,       \* which program runs: "basic" or "body1"
    running,       \* the event loop of run() is alive (no exception escaped it)
    nevents,       \* messages consumed so far; also the clock of func.now()
    state,         \* VkinderBot.state: user id -> DialogState, filled by st()
    db,            \* the tables: users, candidates, favorites, blacklist, search_history
    inbox,         \* longpoll.listen(): the events that arrived and wait to be yielded
    inflight,      \* the events run() has taken and whose handler has not returned
    returned,      \* history: bag of <<user, candidate>> a discovery invocation returned
    last_event     \* history: what the last handled message did

vars == <<variant, running, nevents, state, db, inbox, inflight, returned, last_event>>

\* dataclass DialogState of each variant, with its defaults.
DialogState_basic ==
    [city_id |-> DEFAULT_CITY_ID, city_title |-> NoneText, age |-> NoneInt,
     target_sex |-> VKSex_ALL, last_candidate_id |-> NoneInt, awaiting |-> None]

DialogState_body1 ==
    [city_id |-> NoneInt, city_title |-> NoneText, age |-> NoneInt, offset |-> 0,
     last_candidate_id |-> NoneInt, awaiting |-> None]

DialogState == IF variant = "basic" THEN DialogState_basic ELSE DialogState_body1

\* VkinderBot.st: the user's state, a fresh DialogState when there is none yet.
St(u) == IF u \in DOMAIN state THEN state[u] ELSE DialogState

\* Faulty variant: one DialogState is shared by all users.
Put_shared(u, s) == [x \in (DOMAIN state) \cup {u} |-> s]

\* self.state after st(u) was called and the handler left the user's state as s.
Put(u, s) == [x \in (DOMAIN state) \cup {u} |-> IF x = u THEN s ELSE state[x]]

EmptyDb ==
    [users |-> {}, candidates |-> {}, favorites |-> EmptyBag,
     blacklist |-> EmptyBag, search_history |-> EmptyBag]

NoQuery == [city_id |-> NoneInt, age_from |-> NoneInt, age_to |-> NoneInt, sex |-> NoneInt]

NoEvent ==
    [user |-> NoneInt, handler |-> None, result |-> None, cand |-> NoneInt,
     requests |-> 0, pages |-> 0, skipped |-> 0, start_offset |-> NoneInt,
     saw_returned |-> FALSE, scan |-> <<>>, query |-> NoQuery, listed |-> {},
     repeat |-> FALSE, command |-> FALSE, unmarked |-> NoneInt,
     user_sex |-> NoneInt, open_seen |-> FALSE, users_len |-> 0]

Event(u, h, r) == [NoEvent EXCEPT !.user = u, !.handler = h, !.result = r]

\* The text is one of the command words of run().
CommandWord(text) ==
    Lower(Strip(text)) \in
        W_start \cup W_settings \cup W_next \cup W_favorite \cup W_blacklist \cup W_list

\* What an answer to a prompt did; command: the answer was a command word.
AnswerEvent(u, h, r, text) == [Event(u, h, r) EXCEPT !.command = CommandWord(text)]

\* ------------------------------------------------------------ the tables
Pair(u, c) == [user_id |-> u, candidate_id |-> c]

HistRows(d, u, c) ==
    {r \in BagToSet(d.search_history) : r.user_id = u /\ r.candidate_id = c}

\* Constraints of src/core/models.py: foreign keys, unique (user, candidate)
\* rows and check_reaction.
Integrity_models(d) ==
    /\ \A r \in BagToSet(d.favorites) :
          /\ r.user_id \in d.users /\ r.candidate_id \in d.candidates
          /\ CopiesIn(r, d.favorites) = 1
    /\ \A r \in BagToSet(d.blacklist) :
          /\ r.user_id \in d.users /\ r.candidate_id \in d.candidates
          /\ CopiesIn(r, d.blacklist) = 1
    /\ \A r \in BagToSet(d.search_history) :
          /\ r.user_id \in d.users /\ r.candidate_id \in d.candidates
          /\ CopiesIn(r, d.search_history) = 1
          /\ Cardinality(HistRows(d, r.user_id, r.candidate_id)) = 1
          /\ r.reaction \in {None, "licked", "blocked"}

\* Faulty variant: a commit that raises keeps what the session wrote.
Commit_basic_no_rollback(old, new, fail) ==
    IF fail \/ ~Integrity_models(new)
    THEN [ok |-> FALSE, db |-> new]
    ELSE [ok |-> TRUE, db |-> new]

\* VkinderBot._commit: the session's changes are stored, or, when the commit
\* raises (a lost connection, a violated constraint), rolled back.
Commit_basic(old, new, fail) ==
    IF fail \/ ~Integrity_models(new)
    THEN [ok |-> FALSE, db |-> old]
    ELSE [ok |-> TRUE, db |-> new]

\* ---- src/core/base_repository.py
BaseRepository_exists(table, u, c) == BagIn(Pair(u, c), table)

UserRepository_create_or_update(d, u) == [d EXCEPT !.users = @ \cup {u}]

CandidateRepository_create_or_update(d, c) == [d EXCEPT !.candidates = @ \cup {c}]

FavoriteRepository_add_to_favorites(d, u, c) ==
    IF ~BaseRepository_exists(d.favorites, u, c)
    THEN [d EXCEPT !.favorites = @ (+) SetToBag({Pair(u, c)})]
    ELSE d

BlacklistRepository_add_to_blacklist(d, u, c) ==
    IF ~BaseRepository_exists(d.blacklist, u, c)
    THEN [d EXCEPT !.blacklist = @ (+) SetToBag({Pair(u, c)})]
    ELSE d

BlacklistRepository_is_blocked(d, u, c) == BaseRepository_exists(d.blacklist, u, c)

SearchHistoryRepository_add_view(d, u, c, now) ==
    IF HistRows(d, u, c) # {}
    THEN LET h == CHOOSE r \in HistRows(d, u, c) : TRUE
         IN  [d EXCEPT !.search_history =
                 (@ (-) SetToBag({h})) (+) SetToBag({[h EXCEPT !.shown_at = now]})]
    ELSE [d EXCEPT !.search_history =
             @ (+) SetToBag({[user_id |-> u, candidate_id |-> c,
                              shown_at |-> now, reaction |-> None]})]

SearchHistoryRepository_set_reaction(d, u, c, reaction) ==
    IF HistRows(d, u, c) # {}
    THEN LET h == CHOOSE r \in HistRows(d, u, c) : TRUE
         IN  [d EXCEPT !.search_history =
                 (@ (-) SetToBag({h})) (+) SetToBag({[h EXCEPT !.reaction = reaction]})]
    ELSE d

SearchHistoryRepository_get_viewed_candidates(d, u) ==
    {r.candidate_id : r \in {x \in BagToSet(d.search_history) : x.user_id = u}}

UserRepository_get_user_favorites(d, u) ==
    {c \in d.candidates : BagIn(Pair(u, c), d.favorites)}

\* ---- the database methods of src/basic_code.py
\* Faulty variant: only a row that carries a reaction counts as shown.
was_shown_reacted(d, u, c) == \E r \in HistRows(d, u, c) : r.reaction # None

was_shown_basic(d, u, c) == c \in SearchHistoryRepository_get_viewed_candidates(d, u)

in_blacklist_basic(d, u, c) == BlacklistRepository_is_blocked(d, u, c)

upsert_user_basic(d, u, fail) ==
    Commit_basic(d, UserRepository_create_or_update(d, u), fail)

upsert_candidate_basic(d, c, fail) ==
    Commit_basic(d, CandidateRepository_create_or_update(d, c), fail)

\* Faulty variant: the commit happens but no view is recorded.
mark_shown_skipped(d, u, c, now, fail) == Commit_basic(d, d, fail)

mark_shown_basic(d, u, c, now, fail) ==
    Commit_basic(d, SearchHistoryRepository_add_view(d, u, c, now), fail)

add_favorite_basic(d, u, c, fail) ==
    Commit_basic(d,
        SearchHistoryRepository_set_reaction(
            FavoriteRepository_add_to_favorites(d, u, c), u, c, "licked"),
        fail)

\* Faulty variant: the reaction is set but no blacklist row is added.
add_blacklist_reaction_only(d, u, c, fail) ==
    Commit_basic(d, SearchHistoryRepository_set_reaction(d, u, c, "blocked"), fail)

add_blacklist_basic(d, u, c, fail) ==
    Commit_basic(d,
        SearchHistoryRepository_set_reaction(
            BlacklistRepository_add_to_blacklist(d, u, c), u, c, "blocked"),
        fail)

list_favorites_basic(d, u) == UserRepository_get_user_favorites(d, u)

\* ---- src/repo.py
\* Faulty variant: a commit that raises keeps the row added before it.
Repo_commit_half_written(old, new, fail) ==
    IF fail
    THEN [ok |-> FALSE,
          db |-> [old EXCEPT !.favorites = new.favorites, !.blacklist = new.blacklist]]
    ELSE [ok |-> TRUE, db |-> new]

Repo_commit(old, new, fail) ==
    IF fail THEN [ok |-> FALSE, db |-> old] ELSE [ok |-> TRUE, db |-> new]

\* Faulty variant: a reaction is stored as one more row.
Repo_set_reaction_append(d, u, c, now, reaction) ==
    [d EXCEPT !.search_history =
        @ (+) SetToBag({[user_id |-> u, candidate_id |-> c,
                         shown_at |-> now, reaction |-> reaction]})]

Repo_set_reaction(d, u, c, now, reaction) ==
    IF HistRows(d, u, c) # {}
    THEN LET rec == CHOOSE r \in HistRows(d, u, c) : TRUE
         IN  [d EXCEPT !.search_history =
                 (@ (-) SetToBag({rec})) (+) SetToBag({[rec EXCEPT !.reaction = reaction]})]
    ELSE [d EXCEPT !.search_history =
             @ (+) SetToBag({[user_id |-> u, candidate_id |-> c,
                              shown_at |-> now, reaction |-> reaction]})]

Repo_upsert_user(d, u, fail) == Repo_commit(d, [d EXCEPT !.users = @ \cup {u}], fail)

Repo_upsert_candidate(d, c, fail) ==
    Repo_commit(d, [d EXCEPT !.candidates = @ \cup {c}], fail)

Repo_mark_shown(d, u, c, now, fail) ==
    IF HistRows(d, u, c) # {}
    THEN [ok |-> TRUE, db |-> d]
    ELSE Repo_commit(d,
            [d EXCEPT !.search_history =
                @ (+) SetToBag({[user_id |-> u, candidate_id |-> c,
                                 shown_at |-> now, reaction |-> None]})],
            fail)

Repo_was_shown(d, u, c) == HistRows(d, u, c) # {}

\* Faulty variant: blacklisting a candidate takes it out of the favorites.
Repo_add_blacklist_unfavorites(d, u, c, now, fail) ==
    IF BagIn(Pair(u, c), d.blacklist)
    THEN [ok |-> TRUE, db |-> d]
    ELSE Repo_commit(d,
            Repo_set_reaction(
                [d EXCEPT !.blacklist = @ (+) SetToBag({Pair(u, c)}),
                          !.favorites = @ (-) SetToBag({Pair(u, c)})],
                u, c, now, "blocked"),
            fail)

Repo_add_blacklist(d, u, c, now, fail) ==
    IF BagIn(Pair(u, c), d.blacklist)
    THEN [ok |-> TRUE, db |-> d]
    ELSE Repo_commit(d,
            Repo_set_reaction(
                [d EXCEPT !.blacklist = @ (+) SetToBag({Pair(u, c)})],
                u, c, now, "blocked"),
            fail)

Repo_in_blacklist(d, u, c) == BagIn(Pair(u, c), d.blacklist)

\* Faulty variant: the row is added without looking for an existing one.
Repo_add_favorite_unchecked(d, u, c, now, fail) ==
    Repo_commit(d,
        Repo_set_reaction(
            [d EXCEPT !.favorites = @ (+) SetToBag({Pair(u, c)})],
            u, c, now, "liked"),
        fail)

Repo_add_favorite(d, u, c, now, fail) ==
    IF BagIn(Pair(u, c), d.favorites)
    THEN [ok |-> TRUE, db |-> d]
    ELSE Repo_commit(d,
            Repo_set_reaction(
                [d EXCEPT !.favorites = @ (+) SetToBag({Pair(u, c)})],
                u, c, now, "liked"),
            fail)

Repo_list_favorites(d, u) ==
    {r.candidate_id : r \in {x \in BagToSet(d.favorites) : x.user_id = u}}

\* ------------------------------------------------------ the event loop
\* Faulty variant: the command words are looked at before awaiting.
Dispatch_basic_commands_first(st, text) ==
    LET low == Lower(Strip(text))
    IN  IF low \in W_start THEN "handle_start"
        ELSE IF low \in W_settings THEN "handle_change_settings"
        ELSE IF low \in W_next THEN "handle_next"
        ELSE IF low \in W_favorite THEN "handle_favorite"
        ELSE IF low \in W_blacklist THEN "handle_blacklist"
        ELSE IF low \in W_list THEN "handle_list_favorites"
        ELSE IF st.awaiting = "sex" THEN "handle_sex"
        ELSE IF st.awaiting = "age" THEN "handle_age"
        ELSE "help"

\* The chain of run() in src/basic_code.py: onboarding input first, then the
\* command words compared with the lowered text.
Dispatch_basic(st, text) ==
    LET low == Lower(Strip(text))
    IN  IF st.awaiting = "sex" THEN "handle_sex"
        ELSE IF st.awaiting = "age" THEN "handle_age"
        ELSE IF low \in W_start THEN "handle_start"
        ELSE IF low \in W_settings THEN "handle_change_settings"
        ELSE IF low \in W_next THEN "handle_next"
        ELSE IF low \in W_favorite THEN "handle_favorite"
        ELSE IF low \in W_blacklist THEN "handle_blacklist"
        ELSE IF low \in W_list THEN "handle_list_favorites"
        ELSE "help"

\* The chain of run() in src/bot_body1.py.
Dispatch_body1(st, text) ==
    LET low == Lower(Strip(text))
    IN  IF st.awaiting = "city" THEN "handle_city"
        ELSE IF st.awaiting = "age" THEN "handle_age"
        ELSE IF low \in W_start THEN "handle_start"
        ELSE IF low \in W_next THEN "handle_next"
        ELSE IF low \in W_favorite THEN "handle_favorite"
        ELSE IF low \in W_blacklist THEN "handle_blacklist"
        ELSE IF low \in W_list THEN "handle_list_favorites"
        ELSE "help"

\* One message of user u is taken from the long poll and routed to handler h
\* of variant v.
Recv(v, u, text, h) ==
    /\ running
    /\ variant = v
    /\ h = IF v = "basic" THEN Dispatch_basic(St(u), text)
                          ELSE Dispatch_body1(St(u), text)
    /\ nevents' = nevents + 1
    /\ variant' = variant
    /\ inbox' = inbox
    /\ inflight' = {m \in inflight : ~(m.user = u /\ m.text = text)}

\* The handler ends: the user's DialogState is st, the tables are d, and the
\* loop lives on unless an exception escaped the handler.
Done(u, st, d, alive, ev, ret) ==
    /\ state' = Put(u, st)
    /\ db' = d
    /\ running' = alive
    /\ last_event' = ev
    /\ returned' = ret

SeqsUpTo(S, n) == UNION {[1..k -> S] : k \in 0..n}

\* ------------------------------------------------- src/basic_code.py
\* VkClient.get_user_profile: the VKUser built from users.get (its city title).
Profiles_basic == {[city |-> NoneText], [city |-> Title_spb]}

\* Faulty variant: the lower end of the band is not clamped.
AgeFrom_unclamped(age) == age - AGE_DELTA

\* The age band of pick_next_candidate / handle_age.
AgeFrom(age) == Max(AGE_MIN, age - AGE_DELTA)
AgeTo(age) == Min(AGE_MAX, age + AGE_DELTA)

handle_start_basic(u, text) ==
    /\ Recv("basic", u, text, "handle_start")
    /\ LET st1 == [St(u) EXCEPT !.last_candidate_id = NoneInt, !.awaiting = None]
       IN  \E me \in Profiles_basic, fault \in {None, "profile", "upsert_user", "send"} :
             LET up == upsert_user_basic(db, u, fault = "upsert_user")
                 st2 == [st1 EXCEPT !.city_id = DEFAULT_CITY_ID,
                                    !.city_title = IF me.city # NoneText THEN me.city
                                                   ELSE Title_moskva,
                                    !.awaiting = "sex"]
             IN  IF fault = "profile" \/ ~up.ok
                 THEN Done(u, st1, db, FALSE, Event(u, "handle_start", "raised"), returned)
                 ELSE Done(u, st2, up.db, fault # "send",
                           Event(u, "handle_start", "ok"), returned)

\* Faulty variant: the age survives the reset.
reset_settings_keeps_age(st) ==
    [st EXCEPT !.target_sex = VKSex_ALL, !.last_candidate_id = NoneInt,
               !.awaiting = None]

\* Faulty variant: the reset also forgets the city.
reset_settings_clears_city(st) ==
    [st EXCEPT !.age = NoneInt, !.target_sex = VKSex_ALL,
               !.last_candidate_id = NoneInt, !.awaiting = None,
               !.city_id = NoneInt, !.city_title = NoneText]

reset_settings(st) ==
    [st EXCEPT !.age = NoneInt, !.target_sex = VKSex_ALL,
               !.last_candidate_id = NoneInt, !.awaiting = None]

\* Faulty variant: the settings dialogue begins at the age prompt.
start_settings_flow_skips_sex(st) == [st EXCEPT !.awaiting = "age"]

start_settings_flow(st) == [st EXCEPT !.awaiting = "sex"]

handle_change_settings_basic(u, text) ==
    /\ Recv("basic", u, text, "handle_change_settings")
    /\ \E fault \in {None, "send"} :
         Done(u, start_settings_flow(reset_settings(St(u))), db, fault # "send",
              Event(u, "handle_change_settings", "ok"), returned)

\* Faulty variant: the rule for men is tried first.
MatchSex_men_first(text) ==
    LET low == Lower(Strip(text))
    IN  IF Contains(low, S_muzh) THEN VKSex_MEN
        ELSE IF Contains(low, S_zhen) THEN VKSex_WOMEN
        ELSE IF Contains(low, S_nevazh) THEN VKSex_ALL
        ELSE NoneInt

\* The ordered rules of handle_sex; NoneInt when no rule matches.
MatchSex(text) ==
    LET low == Lower(Strip(text))
    IN  IF Contains(low, S_zhen) THEN VKSex_WOMEN
        ELSE IF Contains(low, S_muzh) THEN VKSex_MEN
        ELSE IF Contains(low, S_nevazh) THEN VKSex_ALL
        ELSE NoneInt

handle_sex_basic(u, text) ==
    /\ Recv("basic", u, text, "handle_sex")
    /\ \E fault \in {None, "send"} :
         LET sex == MatchSex(text)
         IN  IF sex = NoneInt
             THEN Done(u, St(u), db, fault # "send",
                       AnswerEvent(u, "handle_sex", "rejected", text), returned)
             ELSE Done(u, [St(u) EXCEPT !.target_sex = sex, !.awaiting = "age"], db,
                       fault # "send", AnswerEvent(u, "handle_sex", "ok", text), returned)

\* Faulty variant: the limits 18 and 99 themselves are refused.
ValidAge_exclusive(text) ==
    LET p == ParseInt(Strip(text))
    IN  IF p.ok /\ ~(p.val <= AGE_MIN \/ p.val >= AGE_MAX) THEN p.val ELSE NoneInt

\* The try block of handle_age: the age, or NoneInt for the ValueError.
ValidAge(text) ==
    LET p == ParseInt(Strip(text))
    IN  IF p.ok /\ ~(p.val < AGE_MIN \/ p.val > AGE_MAX) THEN p.val ELSE NoneInt

handle_age_basic(u, text) ==
    /\ Recv("basic", u, text, "handle_age")
    /\ \E fault \in {None, "send"} :
         LET age == ValidAge(text)
         IN  IF age = NoneInt
             THEN Done(u, St(u), db, fault # "send",
                       AnswerEvent(u, "handle_age", "rejected", text), returned)
             ELSE Done(u, [St(u) EXCEPT !.age = age, !.awaiting = None], db,
                       fault # "send",
                       [AnswerEvent(u, "handle_age", "ok", text) EXCEPT
                           !.query = [NoQuery EXCEPT !.age_from = AgeFrom(age),
                                                     !.age_to = AgeTo(age)]],
                       returned)

\* What users.search answers: the request failed (ok = FALSE; _request then
\* returns {}), or the items of the response, each with its flags.
Items_basic(D) == [id : D, is_closed : BOOLEAN, has_photo : BOOLEAN]

Responses(items) ==
    [ok : {TRUE}, items : SeqsUpTo(items, MaxPageLen)]
    \cup {[ok |-> FALSE, items |-> <<>>]}

KeepOpenWithPhoto(item) == ~item.is_closed /\ item.has_photo

\* Faulty variant: closed profiles are returned as well.
search_users_keeps_closed(resp) ==
    IF ~resp.ok THEN <<>>
    ELSE LET kept == SelectSeq(resp.items, LAMBDA item : item.has_photo)
         IN  [i \in 1..Len(kept) |-> kept[i].id]

\* VkClient.search_users of src/vkapi.py: the ids of the users it returns.
search_users(resp) ==
    IF ~resp.ok THEN <<>>
    ELSE LET kept == SelectSeq(resp.items, KeepOpenWithPhoto)
         IN  [i \in 1..Len(kept) |-> kept[i].id]

\* The first candidate of the list the loop of pick_next_candidate does not
\* skip, NoneInt when it skips them all.
FirstNew_basic(d, u, cands) ==
    LET ok(i) == /\ ~in_blacklist_basic(d, u, cands[i])
                 /\ ~was_shown_basic(d, u, cands[i])
    IN  IF \E i \in 1..Len(cands) : ok(i)
        THEN cands[CHOOSE i \in 1..Len(cands) : ok(i) /\ \A j \in 1..(i - 1) : ~ok(j)]
        ELSE NoneInt

\* The profiles the loop of pick_next_candidate went through before it
\* returned: the list up to the first one it does not skip.
Scanned_basic(d, u, cands) ==
    LET n == CHOOSE k \in 0..Len(cands) :
                 /\ k = 0 <=> FirstNew_basic(d, u, cands) = NoneInt
                 /\ k > 0 => /\ FirstNew_basic(d, u, SubSeq(cands, 1, k)) # NoneInt
                             /\ FirstNew_basic(d, u, SubSeq(cands, 1, k - 1)) = NoneInt
    IN  [i \in 1..n |-> [id |-> cands[i], restricted |-> FALSE]]

SawReturned(u, cands) == \E i \in 1..Len(cands) : BagIn(<<u, cands[i]>>, returned)

\* Faulty variant: the guard looks at awaiting instead of the age.
NotReady_awaiting(st) == st.awaiting # None

\* `if st.age is None: return None`
NotReady_basic(st) == st.age = NoneInt

pick_next_candidate_basic(u, st, d, now, resp, fault) ==
    IF NotReady_basic(st)
    THEN [result |-> "none", cand |-> NoneInt, db |-> d, requests |-> 0,
          pages |-> 0, skipped |-> 0, saw_returned |-> FALSE, scan |-> <<>>,
          query |-> NoQuery, unmarked |-> NoneInt, user_sex |-> NoneInt]
    ELSE
      LET query == [city_id |-> st.city_id, age_from |-> AgeFrom(st.age),
                    age_to |-> AgeTo(st.age), sex |-> st.target_sex]
          users == search_users(resp)
          cid == FirstNew_basic(d, u, users)
          upc == upsert_candidate_basic(d, cid, fault = "upsert_candidate")
          ms == mark_shown_basic(upc.db, u, cid, now, fault = "mark_shown")
          out(r, c, newdb, um) ==
              [result |-> r, cand |-> c, db |-> newdb, requests |-> 1,
               pages |-> IF resp.ok THEN 1 ELSE 0,
               skipped |-> IF cid = NoneInt THEN 1 ELSE 0,
               saw_returned |-> SawReturned(u, users),
               scan |-> Scanned_basic(d, u, users), query |-> query,
               unmarked |-> um, user_sex |-> NoneInt]
      IN  IF cid = NoneInt THEN out("none", NoneInt, d, NoneInt)
          ELSE IF ~upc.ok THEN out("raised", NoneInt, d, NoneInt)
          ELSE IF ~ms.ok THEN out("raised", NoneInt, ms.db, cid)
          ELSE out("found", cid, ms.db, NoneInt)

DiscoveryEvent(u, o, start) ==
    [Event(u, "handle_next", o.result) EXCEPT
        !.cand = o.cand, !.requests = o.requests, !.pages = o.pages,
        !.skipped = o.skipped, !.start_offset = start,
        !.saw_returned = o.saw_returned, !.scan = o.scan, !.query = o.query,
        !.unmarked = o.unmarked, !.user_sex = o.user_sex]

\* The response of users.search holds a profile that is not closed.
OpenSeen(resp) == \E i \in 1..Len(resp.items) : ~resp.items[i].is_closed

\* Faulty variant: a discovery that finds nobody forgets the last candidate.
handle_next_basic_forgets(u, text, R) ==
    /\ Recv("basic", u, text, "handle_next")
    /\ \E resp \in R :
       \E fault \in IF \/ NotReady_basic(St(u))
                        \/ FirstNew_basic(db, u, search_users(resp)) = NoneInt
                     THEN {None, "send"}
                     ELSE {None, "upsert_candidate", "mark_shown", "send"} :
         LET found == pick_next_candidate_basic(u, St(u), db, nevents + 1, resp, fault)
             ev == [DiscoveryEvent(u, found, NoneInt) EXCEPT
                       !.open_seen = found.requests > 0 /\ OpenSeen(resp),
                       !.users_len = IF found.requests > 0
                                     THEN Len(search_users(resp)) ELSE 0]
         IN  CASE found.result = "raised" ->
                    Done(u, St(u), found.db, FALSE, ev, returned)
               [] found.result = "none" ->
                    Done(u, [St(u) EXCEPT !.last_candidate_id = NoneInt], found.db,
                         fault # "send", ev, returned)
               [] found.result = "found" ->
                    Done(u, [St(u) EXCEPT !.last_candidate_id = found.cand], found.db,
                         fault # "send", ev, returned (+) SetToBag({<<u, found.cand>>}))

\* The writes of pick_next_candidate can raise only when it reaches them.
handle_next_basic(u, text, R) ==
    /\ Recv("basic", u, text, "handle_next")
    /\ \E resp \in R :
       \E fault \in IF \/ NotReady_basic(St(u))
                        \/ FirstNew_basic(db, u, search_users(resp)) = NoneInt
                     THEN {None, "send"}
                     ELSE {None, "upsert_candidate", "mark_shown", "send"} :
         LET found == pick_next_candidate_basic(u, St(u), db, nevents + 1, resp, fault)
             ev == [DiscoveryEvent(u, found, NoneInt) EXCEPT
                       !.open_seen = found.requests > 0 /\ OpenSeen(resp),
                       !.users_len = IF found.requests > 0
                                     THEN Len(search_users(resp)) ELSE 0]
         IN  CASE found.result = "raised" ->
                    Done(u, St(u), found.db, FALSE, ev, returned)
               [] found.result = "none" ->
                    Done(u, St(u), found.db, fault # "send", ev, returned)
               [] found.result = "found" ->
                    Done(u, [St(u) EXCEPT !.last_candidate_id = found.cand], found.db,
                         fault # "send", ev, returned (+) SetToBag({<<u, found.cand>>}))

\* Faulty variant: only the id 0 counts as "no candidate", None does not.
NoLastCandidate_zero_only(st) == st.last_candidate_id = 0

\* `not st.last_candidate_id`
NoLastCandidate(st) == st.last_candidate_id = NoneInt \/ st.last_candidate_id = 0

\* What a reaction command did; repeat: it recorded the reaction the message
\* before it had recorded for the same user and candidate.
ReactionEvent(u, h, r, c) ==
    [Event(u, h, r) EXCEPT
        !.cand = c,
        !.repeat = /\ r = "ok" /\ last_event.result = "ok"
                   /\ last_event.user = u /\ last_event.handler = h
                   /\ last_event.cand = c]

handle_favorite_basic(u, text) ==
    /\ Recv("basic", u, text, "handle_favorite")
    /\ \E fault \in {None, "reaction", "send"} :
         LET st == St(u)
             w == add_favorite_basic(db, u, st.last_candidate_id, fault = "reaction")
         IN  IF NoLastCandidate(st)
             THEN Done(u, st, db, fault # "send",
                       ReactionEvent(u, "handle_favorite", "rejected", NoneInt), returned)
             ELSE IF ~w.ok
             THEN Done(u, st, w.db, FALSE,
                       ReactionEvent(u, "handle_favorite", "raised", st.last_candidate_id),
                       returned)
             ELSE Done(u, st, w.db, fault # "send",
                       ReactionEvent(u, "handle_favorite", "ok", st.last_candidate_id),
                       returned)

handle_blacklist_basic(u, text) ==
    /\ Recv("basic", u, text, "handle_blacklist")
    /\ \E fault \in {None, "reaction", "send"} :
         LET st == St(u)
             w == add_blacklist_basic(db, u, st.last_candidate_id, fault = "reaction")
         IN  IF NoLastCandidate(st)
             THEN Done(u, st, db, fault # "send",
                       ReactionEvent(u, "handle_blacklist", "rejected", NoneInt), returned)
             ELSE IF ~w.ok
             THEN Done(u, st, w.db, FALSE,
                       ReactionEvent(u, "handle_blacklist", "raised", st.last_candidate_id),
                       returned)
             ELSE Done(u, st, w.db, fault # "send",
                       ReactionEvent(u, "handle_blacklist", "ok", st.last_candidate_id),
                       returned)

\* Faulty variant: listing the favorites restarts the settings dialogue.
handle_list_favorites_restarts(u, text) ==
    /\ Recv("basic", u, text, "handle_list_favorites")
    /\ \E fault \in {None, "send"} :
         Done(u, start_settings_flow(St(u)), db, fault # "send",
              [Event(u, "handle_list_favorites", "ok") EXCEPT
                  !.listed = list_favorites_basic(db, u)],
              returned)

handle_list_favorites_basic(u, text) ==
    /\ Recv("basic", u, text, "handle_list_favorites")
    /\ \E fault \in {None, "send"} :
         Done(u, St(u), db, fault # "send",
              [Event(u, "handle_list_favorites", "ok") EXCEPT
                  !.listed = list_favorites_basic(db, u)],
              returned)

\* The else branch of run(): the list of commands is sent.
help_basic(u, text) ==
    /\ Recv("basic", u, text, "help")
    /\ \E fault \in {None, "send"} :
         Done(u, St(u), db, fault # "send", Event(u, "help", "ok"), returned)

\* ------------------------------------------------- src/bot_body1.py
Cities == {1, 2}

CityTitle(id) == IF id = 1 THEN Title_moskva ELSE Title_spb

\* users.get for the user: the city of the profile (NoneInt when it has
\* none) and the user's own sex.
Profiles_body1 == [city_id : Cities \cup {NoneInt}, sex : {0, 1, 2}]

\* Faulty variant: the city is asked for also when the profile names one.
handle_start_body1_asks_city(u, text, P) ==
    /\ Recv("body1", u, text, "handle_start")
    /\ \E user \in P,
          fault \in {None, "profile", "upsert_user", "send"} :
         LET up == Repo_upsert_user(db, u, fault = "upsert_user")
             st1 == IF user.city_id # NoneInt /\ user.city_id # 0
                    THEN [St(u) EXCEPT !.city_id = user.city_id,
                                       !.city_title = CityTitle(user.city_id)]
                    ELSE St(u)
             st2 == [st1 EXCEPT !.awaiting = "city"]
         IN  IF fault = "profile"
             THEN Done(u, St(u), db, TRUE, Event(u, "handle_start", "rejected"), returned)
             ELSE IF ~up.ok
             THEN Done(u, St(u), db, FALSE, Event(u, "handle_start", "raised"), returned)
             ELSE Done(u, st2, up.db, fault # "send",
                       Event(u, "handle_start", "ok"), returned)

handle_start_body1(u, text, P) ==
    /\ Recv("body1", u, text, "handle_start")
    /\ \E user \in P,
          fault \in {None, "profile", "upsert_user", "send"} :
         LET up == Repo_upsert_user(db, u, fault = "upsert_user")
             st1 == IF user.city_id # NoneInt /\ user.city_id # 0
                    THEN [St(u) EXCEPT !.city_id = user.city_id,
                                       !.city_title = CityTitle(user.city_id)]
                    ELSE St(u)
             st2 == IF st1.city_id = NoneInt \/ st1.city_id = 0
                    THEN [st1 EXCEPT !.awaiting = "city"]
                    ELSE [st1 EXCEPT !.awaiting = "age"]
         IN  IF fault = "profile"
             THEN Done(u, St(u), db, TRUE, Event(u, "handle_start", "rejected"), returned)
             ELSE IF ~up.ok
             THEN Done(u, St(u), db, FALSE, Event(u, "handle_start", "raised"), returned)
             ELSE Done(u, st2, up.db, fault # "send",
                       Event(u, "handle_start", "ok"), returned)

handle_age_body1(u, text) ==
    /\ Recv("body1", u, text, "handle_age")
    /\ \E fault \in {None, "send"} :
         LET age == ValidAge(text)
         IN  IF age = NoneInt
             THEN Done(u, St(u), db, fault # "send",
                       AnswerEvent(u, "handle_age", "rejected", text), returned)
             ELSE Done(u, [St(u) EXCEPT !.age = age, !.awaiting = None], db,
                       fault # "send", AnswerEvent(u, "handle_age", "ok", text), returned)

\* database.getCities for the text: no items, or the first item (its title
\* may be missing).
CityAnswers ==
    {[id |-> NoneInt, title |-> NoneText]}
    \cup [id : Cities, title : {NoneText}]
    \cup {[id |-> c, title |-> CityTitle(c)] : c \in Cities}

\* Faulty variant: a text that names no city ends the city prompt all the same.
handle_city_body1_gives_up(u, text, C) ==
    /\ Recv("body1", u, text, "handle_city")
    /\ \E found \in C, fault \in {None, "find_city", "send"} :
         IF fault = "find_city"
         THEN Done(u, St(u), db, FALSE, AnswerEvent(u, "handle_city", "raised", text), returned)
         ELSE IF found.id = NoneInt \/ found.id = 0
         THEN Done(u, [St(u) EXCEPT !.awaiting = "age"], db, fault # "send",
                   AnswerEvent(u, "handle_city", "rejected", text), returned)
         ELSE Done(u, [St(u) EXCEPT !.city_id = found.id,
                                    !.city_title = IF found.title # NoneText
                                                   THEN found.title ELSE Strip(text),
                                    !.awaiting = "age"],
                   db, fault # "send", AnswerEvent(u, "handle_city", "ok", text), returned)

handle_city_body1(u, text, C) ==
    /\ Recv("body1", u, text, "handle_city")
    /\ \E found \in C, fault \in {None, "find_city", "send"} :
         IF fault = "find_city"
         THEN Done(u, St(u), db, FALSE, AnswerEvent(u, "handle_city", "raised", text), returned)
         ELSE IF found.id = NoneInt \/ found.id = 0
         THEN Done(u, St(u), db, fault # "send",
                   AnswerEvent(u, "handle_city", "rejected", text), returned)
         ELSE Done(u, [St(u) EXCEPT !.city_id = found.id,
                                    !.city_title = IF found.title # NoneText
                                                   THEN found.title ELSE Strip(text),
                                    !.awaiting = "age"],
                   db, fault # "send", AnswerEvent(u, "handle_city", "ok", text), returned)

\* A page of the paged users.search: the call raised (ok = FALSE), or the
\* profiles of the page with their access flags.
Items_body1(D) == [id : D, is_closed : BOOLEAN, can_access_closed : BOOLEAN]

Ids(items) == [i \in 1..Len(items) |-> items[i].id]

\* Faulty variant: the last profile of the page that passes the filters.
FirstNew_body1_last(d, u, items) ==
    LET ok(i) == /\ ~(items[i].is_closed /\ ~items[i].can_access_closed)
                 /\ ~Repo_in_blacklist(d, u, items[i].id)
                 /\ ~Repo_was_shown(d, u, items[i].id)
    IN  IF \E i \in 1..Len(items) : ok(i)
        THEN items[CHOOSE i \in 1..Len(items) :
                       ok(i) /\ \A j \in (i + 1)..Len(items) : ~ok(j)].id
        ELSE NoneInt

\* The first profile of the page the inner loop does not skip.
FirstNew_body1(d, u, items) ==
    LET ok(i) == /\ ~(items[i].is_closed /\ ~items[i].can_access_closed)
                 /\ ~Repo_in_blacklist(d, u, items[i].id)
                 /\ ~Repo_was_shown(d, u, items[i].id)
    IN  IF \E i \in 1..Len(items) : ok(i)
        THEN items[CHOOSE i \in 1..Len(items) : ok(i) /\ \A j \in 1..(i - 1) : ~ok(j)].id
        ELSE NoneInt

\* The profiles of the page the inner loop went through before it returned:
\* the page up to the first profile it does not skip, each with its id and
\* whether it is closed to the viewer.
Scanned_body1(d, u, items) ==
    LET n == CHOOSE k \in 0..Len(items) :
                 /\ k = 0 <=> FirstNew_body1(d, u, items) = NoneInt
                 /\ k > 0 => /\ FirstNew_body1(d, u, SubSeq(items, 1, k)) # NoneInt
                             /\ FirstNew_body1(d, u, SubSeq(items, 1, k - 1)) = NoneInt
    IN  [i \in 1..n |->
            [id |-> items[i].id,
             restricted |-> items[i].is_closed /\ ~items[i].can_access_closed]]

\* `age_from = max(18, st.age - 5)`, `age_to = min(99, st.age + 5)`
AgeFrom_body1(age) == Max(AGE_MIN, age - 5)
\* Faulty variant: the upper end of the band is not cut at 99.
AgeTo_body1_unclamped(age) == age + 5

AgeTo_body1(age) == Min(AGE_MAX, age + 5)

\* Faulty variant: the search is for the user's own sex.
SearchSex_same(user_sex) ==
    IF user_sex = 1 THEN VKSex_WOMEN
    ELSE IF user_sex = 2 THEN VKSex_MEN
    ELSE VKSex_ALL

\* `user_sex = user.get("sex", 0)` and the if / elif / else after it.
SearchSex(user_sex) ==
    IF user_sex = 1 THEN VKSex_MEN
    ELSE IF user_sex = 2 THEN VKSex_WOMEN
    ELSE VKSex_ALL

\* What happens to the first new profile cid: it is stored, marked shown and
\* its photos are fetched; the step named by fault raises (unmarked is the
\* profile whose mark_shown raised).
Show_body1(d, u, cid, now, fault) ==
    LET upc == Repo_upsert_candidate(d, cid, fault = "upsert_candidate")
        ms == Repo_mark_shown(upc.db, u, cid, now, fault = "mark_shown")
        out(r, c, newdb, um) ==
            [result |-> r, cand |-> c, db |-> newdb, unmarked |-> um]
    IN  IF ~upc.ok THEN out("raised", NoneInt, upc.db, NoneInt)
        ELSE IF ~ms.ok THEN out("raised", NoneInt, ms.db, cid)
        ELSE IF fault = "photos" THEN out("raised", NoneInt, ms.db, NoneInt)
        ELSE out("found", cid, ms.db, NoneInt)

\* What one page means to the loop of pick_next_candidate: whether the call
\* raised, the first profile it does not skip, and whether it held a profile
\* already returned to the user.
PageKinds(u, d, R) ==
    {[ok |-> resp.ok,
      cid |-> FirstNew_body1(d, u, resp.items),
      scan |-> Scanned_body1(d, u, resp.items),
      seen |-> SawReturned(u, Ids(resp.items))] : resp \in R}

\* Faulty variant: the offset moves on by one profile only.
NextOffset_by_one(offset) == offset + 1

\* `st.offset += 50`
NextOffset(offset) == offset + PAGE_SIZE

\* Faulty variant: one pass too many.
MorePasses_off_by_one(i) == i < MAX_PAGES

\* `for _ in range(10)`: after pass i (counted from 0) another pass follows.
MorePasses(i) == i + 1 < MAX_PAGES

\* The loop `for _ in range(10)` of pick_next_candidate from its i-th pass on,
\* with the offset reached and whether an already returned profile was seen:
\* every way it can end, over the pages (of kinds K) the search may answer
\* and the steps (F) that may raise.
RECURSIVE PickPages(_, _, _, _, _, _, _, _)
PickPages(u, d, now, K, F, i, offset, saw) ==
    LET end(r, off, s, fetched, empty, sc) ==
            [result |-> r.result, cand |-> r.cand, db |-> r.db, offset |-> off,
             requests |-> i + 1, pages |-> fetched, skipped |-> empty,
             saw_returned |-> s, scan |-> sc, unmarked |-> r.unmarked]
        nothing == [result |-> "none", cand |-> NoneInt, db |-> d, unmarked |-> NoneInt]
        here ==
            UNION {
                IF ~k.ok THEN {end(nothing, offset, saw, i, i, <<>>)}
                ELSE IF k.cid = NoneInt THEN {}
                ELSE {end(Show_body1(d, u, k.cid, now, fault),
                          NextOffset(offset), saw \/ k.seen, i + 1, i, k.scan) :
                      fault \in F}
                : k \in K}
        after(s) ==
            IF \E k \in K : k.ok /\ k.cid = NoneInt /\ (saw \/ k.seen) = s
            THEN IF MorePasses(i)
                 THEN PickPages(u, d, now, K, F, i + 1, NextOffset(offset), s)
                 ELSE {end(nothing, NextOffset(offset), s, i + 1, i + 1, <<>>)}
            ELSE {}
    IN  here \cup after(FALSE) \cup after(TRUE)

\* `if st.city_id is None or st.age is None: return None`
NotReady_body1(st) == st.city_id = NoneInt \/ st.age = NoneInt

\* Every way pick_next_candidate can end: user is the profile users.get
\* answers with, or the call raises ("profile" in F).
pick_next_candidate_body1(u, st, d, now, user, R, F) ==
    IF NotReady_body1(st)
    THEN {[result |-> "none", cand |-> NoneInt, db |-> d, offset |-> st.offset,
           requests |-> 0, pages |-> 0, skipped |-> 0, saw_returned |-> FALSE,
           scan |-> <<>>, query |-> NoQuery, unmarked |-> NoneInt,
           user_sex |-> NoneInt]}
    ELSE IF "profile" \in F
    THEN {[result |-> "raised", cand |-> NoneInt, db |-> d, offset |-> st.offset,
           requests |-> 0, pages |-> 0, skipped |-> 0, saw_returned |-> FALSE,
           scan |-> <<>>, query |-> NoQuery, unmarked |-> NoneInt,
           user_sex |-> NoneInt]}
    ELSE LET query == [city_id |-> st.city_id, age_from |-> AgeFrom_body1(st.age),
                       age_to |-> AgeTo_body1(st.age), sex |-> SearchSex(user.sex)]
         IN  {[result |-> o.result, cand |-> o.cand, db |-> o.db, offset |-> o.offset,
               requests |-> o.requests, pages |-> o.pages, skipped |-> o.skipped,
               saw_returned |-> o.saw_returned, scan |-> o.scan, query |-> query,
               unmarked |-> o.unmarked, user_sex |-> user.sex] :
                 o \in PickPages(u, d, now, PageKinds(u, d, R), F, 0, st.offset, FALSE)}

\* Faulty variant: a discovery that returns nobody forgets the last candidate.
handle_next_body1_forgets(u, text, R, P) ==
    /\ Recv("body1", u, text, "handle_next")
    /\ St(u).offset < MaxStartPage * PAGE_SIZE
    /\ \E user \in P,
          F \in {{"profile"}, {None, "upsert_candidate", "mark_shown", "photos"}} :
       \E found \in pick_next_candidate_body1(u, St(u), db, nevents + 1, user, R, F),
          fault \in {None, "send"} :
         LET ev == DiscoveryEvent(u, found, St(u).offset)
             st1 == [St(u) EXCEPT !.offset = found.offset]
         IN  IF found.result = "found"
             THEN Done(u, [st1 EXCEPT !.last_candidate_id = found.cand], found.db,
                       fault # "send", ev, returned (+) SetToBag({<<u, found.cand>>}))
             ELSE Done(u, [st1 EXCEPT !.last_candidate_id = NoneInt], found.db,
                       fault # "send", ev, returned)

handle_next_body1(u, text, R, P) ==
    /\ Recv("body1", u, text, "handle_next")
    /\ St(u).offset < MaxStartPage * PAGE_SIZE
    /\ \E user \in P,
          F \in {{"profile"}, {None, "upsert_candidate", "mark_shown", "photos"}} :
       \E found \in pick_next_candidate_body1(u, St(u), db, nevents + 1, user, R, F),
          fault \in {None, "send"} :
         LET ev == DiscoveryEvent(u, found, St(u).offset)
             st1 == [St(u) EXCEPT !.offset = found.offset]
         IN  IF found.result = "found"
             THEN Done(u, [st1 EXCEPT !.last_candidate_id = found.cand], found.db,
                       fault # "send", ev, returned (+) SetToBag({<<u, found.cand>>}))
             ELSE Done(u, st1, found.db, fault # "send", ev, returned)

handle_favorite_body1(u, text) ==
    /\ Recv("body1", u, text, "handle_favorite")
    /\ \E fault \in {None, "reaction", "send"} :
         LET st == St(u)
             w == Repo_add_favorite(db, u, st.last_candidate_id, nevents + 1,
                                    fault = "reaction")
         IN  IF NoLastCandidate(st)
             THEN Done(u, st, db, fault # "send",
                       ReactionEvent(u, "handle_favorite", "rejected", NoneInt), returned)
             ELSE IF ~w.ok
             THEN Done(u, st, w.db, FALSE,
                       ReactionEvent(u, "handle_favorite", "raised", st.last_candidate_id),
                       returned)
             ELSE Done(u, st, w.db, fault # "send",
                       ReactionEvent(u, "handle_favorite", "ok", st.last_candidate_id),
                       returned)

handle_blacklist_body1(u, text) ==
    /\ Recv("body1", u, text, "handle_blacklist")
    /\ \E fault \in {None, "reaction", "send"} :
         LET st == St(u)
             w == Repo_add_blacklist(db, u, st.last_candidate_id, nevents + 1,
                                     fault = "reaction")
         IN  IF NoLastCandidate(st)
             THEN Done(u, st, db, fault # "send",
                       ReactionEvent(u, "handle_blacklist", "rejected", NoneInt), returned)
             ELSE IF ~w.ok
             THEN Done(u, st, w.db, FALSE,
                       ReactionEvent(u, "handle_blacklist", "raised", st.last_candidate_id),
                       returned)
             ELSE Done(u, st, w.db, fault # "send",
                       ReactionEvent(u, "handle_blacklist", "ok", st.last_candidate_id),
                       returned)

handle_list_favorites_body1(u, text) ==
    /\ Recv("body1", u, text, "handle_list_favorites")
    /\ \E fault \in {None, "send"} :
         Done(u, St(u), db, fault # "send",
              [Event(u, "handle_list_favorites", "ok") EXCEPT
                  !.listed = Repo_list_favorites(db, u)],
              returned)

help_body1(u, text) ==
    /\ Recv("body1", u, text, "help")
    /\ \E fault \in {None, "send"} :
         Done(u, St(u), db, fault # "send", Event(u, "help", "ok"), returned)

\* ------------------------------------------------------------ specification
\* What the runs explored hold: the users that write, their texts, how many
\* messages arrive, the pages of users.search and the users' own profiles.
World ==
    [users |-> Users, texts |-> Texts, events |-> MaxEvents, polled |-> FALSE,
     pages_basic |-> Responses(Items_basic(Cands)),
     pages_body1 |-> Responses(Items_body1(Cands)),
     profiles |-> {p \in Profiles_body1 : p.sex = 1 /\ p.city_id # 2},
     cities |-> {a \in CityAnswers : a.title # NoneText \/ a.id = NoneInt}]

Init ==
    /\ variant \in {"basic", "body1"}
    /\ running = TRUE
    /\ nevents = 0
    /\ state = [x \in {} |-> DialogState]
    /\ db = EmptyDb
    /\ inbox = <<>>
    /\ inflight = {}
    /\ returned = EmptyBag
    /\ last_event = NoEvent

\* The message (u, t) is the next one handled: more messages may come, and
\* where the loop is followed statement by statement (W.polled) the loop has
\* taken it from the long poll.
Turn(W, u, t) ==
    /\ nevents < W.events
    /\ W.polled => \E m \in inflight : m.user = u /\ m.text = t

NextOver(W) ==
    \/ \E u \in W.users, t \in W.texts :
          Turn(W, u, t) /\ handle_start_basic(u, t)
    \/ \E u \in W.users, t \in W.texts :
          Turn(W, u, t) /\ handle_change_settings_basic(u, t)
    \/ \E u \in W.users, t \in W.texts :
          Turn(W, u, t) /\ handle_sex_basic(u, t)
    \/ \E u \in W.users, t \in W.texts :
          Turn(W, u, t) /\ handle_age_basic(u, t)
    \/ \E u \in W.users, t \in W.texts :
          Turn(W, u, t) /\ handle_next_basic(u, t, W.pages_basic)
    \/ \E u \in W.users, t \in W.texts :
          Turn(W, u, t) /\ handle_favorite_basic(u, t)
    \/ \E u \in W.users, t \in W.texts :
          Turn(W, u, t) /\ handle_blacklist_basic(u, t)
    \/ \E u \in W.users, t \in W.texts :
          Turn(W, u, t) /\ handle_list_favorites_basic(u, t)
    \/ \E u \in W.users, t \in W.texts :
          Turn(W, u, t) /\ help_basic(u, t)
    \/ \E u \in W.users, t \in W.texts :
          Turn(W, u, t) /\ handle_start_body1(u, t, W.profiles)
    \/ \E u \in W.users, t \in W.texts :
          Turn(W, u, t) /\ handle_city_body1(u, t, W.cities)
    \/ \E u \in W.users, t \in W.texts :
          Turn(W, u, t) /\ handle_age_body1(u, t)
    \/ \E u \in W.users, t \in W.texts :
          Turn(W, u, t) /\ handle_next_body1(u, t, W.pages_body1, W.profiles)
    \/ \E u \in W.users, t \in W.texts :
          Turn(W, u, t) /\ handle_favorite_body1(u, t)
    \/ \E u \in W.users, t \in W.texts :
          Turn(W, u, t) /\ handle_blacklist_body1(u, t)
    \/ \E u \in W.users, t \in W.texts :
          Turn(W, u, t) /\ handle_list_favorites_body1(u, t)
    \/ \E u \in W.users, t \in W.texts :
          Turn(W, u, t) /\ help_body1(u, t)

Next == NextOver(World)

Spec == Init /\ [][Next]_vars

\* The onboarding dialogue with every answer to the sex prompt and many
\* answers to the age prompt, and a search that always answers with one open
\* profile.
OnePage(items) == {[ok |-> TRUE, items |-> <<i>>] : i \in items}

World_ages ==
    [users |-> Users, texts |-> CommandTexts \cup SexTexts \cup AgeTexts,
     events |-> MaxEventsAges, polled |-> FALSE,
     pages_basic |-> OnePage({i \in Items_basic(Cands) : KeepOpenWithPhoto(i)}),
     pages_body1 |-> OnePage({i \in Items_body1(Cands) : ~i.is_closed /\ ~i.can_access_closed}),
     profiles |-> {p \in Profiles_body1 : p.city_id # 2},
     cities |-> CityAnswers]

\* The onboarding and the first commands after it.
NextAges == NextOver(World_ages)

SpecAges == Init /\ [][NextAges]_vars

\* ---- two users write to the same bot
UsersTwo == 1..NumUsersTwo

World_two ==
    [World_ages EXCEPT !.users = UsersTwo, !.texts = Texts, !.events = MaxEventsTwo]

NextTwo == NextOver(World_two)

SpecTwo == Init /\ [][NextTwo]_vars

\* ---- the loop of run(), one statement at a time
\* How many messages have arrived so far.
Arrived == nevents + Cardinality(inflight) + Len(inbox)

\* A user writes to the bot: the event waits in the long poll.
Arrive(W) ==
    /\ Arrived < W.events
    /\ Len(inbox) < MaxInbox
    /\ \E u \in W.users, t \in W.texts :
          inbox' = Append(inbox, [user |-> u, text |-> t, n |-> Arrived + 1])
    /\ UNCHANGED <<variant, running, nevents, state, db, inflight, returned, last_event>>

\* Faulty variant: the next event is taken while a handler is still running.
Poll_concurrent ==
    /\ running
    /\ inbox # <<>>
    /\ inflight' = inflight \cup {Head(inbox)}
    /\ inbox' = Tail(inbox)
    /\ UNCHANGED <<variant, running, nevents, state, db, returned, last_event>>

\* `for event in self.longpoll.listen()`: the loop is at its head (the call
\* of the previous handler has returned) and takes the oldest event.
Poll ==
    /\ running
    /\ inflight = {}
    /\ inbox # <<>>
    /\ inflight' = {Head(inbox)}
    /\ inbox' = Tail(inbox)
    /\ UNCHANGED <<variant, running, nevents, state, db, returned, last_event>>

\* The handlers run on the event the loop holds; the search answers with
\* one open profile.
World_loop ==
    [World_ages EXCEPT !.texts = Texts, !.events = MaxEventsLoop, !.polled = TRUE]

NextLoop ==
    \/ Arrive(World_loop)
    \/ Poll
    \/ NextOver(World_loop)

SpecLoop == Init /\ [][NextLoop]_vars

\* ------------------------------------------------------------- properties
\* list_favorites of the running variant.
ListFavorites(d, u) ==
    IF variant = "basic" THEN list_favorites_basic(d, u) ELSE Repo_list_favorites(d, u)

\* The reaction column of the search_history row of (u, c), None without a row.
StoredReaction(d, u, c) ==
    IF HistRows(d, u, c) = {} THEN None
    ELSE (CHOOSE r \in HistRows(d, u, c) : TRUE).reaction

\* The step handled a message of user u with handler h.
Handled(u, h) == last_event'.user = u /\ last_event'.handler = h

\* C1: once a discovery invocation for user u has returned candidate c, no
\* later discovery invocation for u returns c again, also when the search
\* still answers with c: no (u, c) is returned twice.
C1_Exclusion ==
    \A u \in Users, c \in Cands : CopiesIn(<<u, c>>, returned) <= 1

\* A discovery whose pages held a candidate returned before, and which
\* returned another one.
C1_Witness ==
    /\ last_event.handler = "handle_next"
    /\ last_event.result = "found"
    /\ last_event.saw_returned
    /\ BagCardinality(returned) = 2

\* C2: after a Favorite reaction on c followed by a Blacklist reaction on the
\* same c (c is in the favorites and the step records a Blacklist reaction on
\* it), the stored reaction of (u, c) is "blocked" and c is absent from
\* list_favorites(u).
C2_ReactionExclusivity ==
    [][\A u \in Users, c \in Cands :
          (/\ c \in ListFavorites(db, u)
           /\ Handled(u, "handle_blacklist")
           /\ last_event'.result = "ok"
           /\ last_event'.cand = c)
          => (/\ StoredReaction(db', u, c) = "blocked"
              /\ c \notin ListFavorites(db', u))]_vars

\* C3: in every reachable state no candidate is both in a user's favorites
\* and in the same user's blacklist.
C3_NeverInBoth ==
    \A u \in Users, c \in Cands :
        ~(BagIn(Pair(u, c), db.favorites) /\ BagIn(Pair(u, c), db.blacklist))

\* C4: a Favorite or Blacklist command handled while last_candidate_id is
\* unset is rejected, writes nothing to the tables and leaves the user's
\* DialogState as it was.
C4_PreconditionEnforced ==
    [][\A u \in Users :
          (/\ Handled(u, "handle_favorite") \/ Handled(u, "handle_blacklist")
           /\ St(u).last_candidate_id = NoneInt)
          => (/\ last_event'.result = "rejected"
              /\ db' = db
              /\ state'[u] = St(u))]_vars

\* A reaction command was refused for want of a candidate.
C4_Witness ==
    /\ last_event.handler \in {"handle_favorite", "handle_blacklist"}
    /\ last_event.result = "rejected"
    /\ St(last_event.user).last_candidate_id = NoneInt
    /\ db.favorites = EmptyBag /\ db.blacklist = EmptyBag

\* C5: one discovery invocation issues at most 10 search requests, the offset
\* advances by 50 for every page received, and when all 10 pages held only
\* excluded candidates the invocation returns None with the stored offset
\* exactly 500 above its value at the start.
C5_PaginationTermination ==
    last_event.handler = "handle_next" =>
        /\ last_event.requests <= 10
        /\ variant = "body1" =>
              /\ St(last_event.user).offset
                     = last_event.start_offset + 50 * last_event.pages
              /\ last_event.skipped = 10 =>
                    /\ last_event.result = "none"
                    /\ St(last_event.user).offset = last_event.start_offset + 500

\* A discovery that went through ten pages without an eligible candidate.
C5_Witness ==
    /\ last_event.handler = "handle_next"
    /\ last_event.requests = 10
    /\ last_event.skipped = 10

\* The step is handle_age of either variant on text t.
AgeStep(u, t) == handle_age_basic(u, t) \/ handle_age_body1(u, t)

\* C6: in AwaitingAge a text that is no integer, or an integer outside
\* [18, 99], leaves awaiting = "age" and the age as it was; a text that parses
\* to n with 18 <= n <= 99 sets age = n and clears awaiting.
C6_AgeSelfLoop ==
    [][\A u \in Users, t \in World_ages.texts :
          AgeStep(u, t) =>
              LET p == ParseInt(t)
              IN  IF p.ok /\ 18 <= p.val /\ p.val <= 99
                  THEN state'[u].age = p.val /\ state'[u].awaiting = None
                  ELSE state'[u].awaiting = "age" /\ state'[u].age = St(u).age]_vars

\* An answer to the age prompt was refused on a first pass: the age is None.
C6_Witness ==
    /\ last_event.handler = "handle_age"
    /\ last_event.result = "rejected"
    /\ St(last_event.user).awaiting = "age"
    /\ St(last_event.user).age = NoneInt

\* C7: for every accepted age a in [18, 99] the band of the search (and the
\* band handle_age announces) is [max(18, a - 5), min(99, a + 5)]; 30 gives
\* [25, 35], 19 gives [18, 24] and 97 gives [92, 99].
C7_AgeBand ==
    LET BandLow(a) == IF a - 5 < 18 THEN 18 ELSE a - 5
        BandHigh(a) == IF a + 5 > 99 THEN 99 ELSE a + 5
    IN  /\ \A a \in 18..99 :
              /\ AgeFrom(a) = BandLow(a) /\ AgeTo(a) = BandHigh(a)
              /\ AgeFrom_body1(a) = BandLow(a) /\ AgeTo_body1(a) = BandHigh(a)
        /\ (\/ last_event.handler = "handle_next" /\ last_event.requests > 0
            \/ last_event.handler = "handle_age" /\ last_event.result = "ok"
                  /\ variant = "basic")
           => LET a == St(last_event.user).age
                  band == <<last_event.query.age_from, last_event.query.age_to>>
              IN  /\ a \in 18..99
                  /\ band = <<BandLow(a), BandHigh(a)>>
                  /\ a = 30 => band = <<25, 35>>
                  /\ a = 19 => band = <<18, 24>>
                  /\ a = 97 => band = <<92, 99>>

\* A search was issued for a user of age 19 with the band [18, 24].
C7_Witness ==
    /\ last_event.handler = "handle_next"
    /\ last_event.requests > 0
    /\ St(last_event.user).age = 19
    /\ last_event.query.age_from = 18
    /\ last_event.query.age_to = 24

\* C8: last_candidate_id is only ever assigned the candidate a discovery
\* invocation just returned, and every start command and every
\* change-settings command clears it.
C8_LastCandidate ==
    [][\A u \in Users :
          /\ (/\ u \in DOMAIN state'
              /\ state'[u].last_candidate_id # NoneInt
              /\ state'[u].last_candidate_id # St(u).last_candidate_id)
             => (/\ Handled(u, "handle_next")
                 /\ last_event'.result = "found"
                 /\ last_event'.cand = state'[u].last_candidate_id)
          /\ (Handled(u, "handle_start") \/ Handled(u, "handle_change_settings"))
             => state'[u].last_candidate_id = NoneInt]_vars

\* C9: whenever awaiting is set ("age" or an earlier step) the age is None,
\* and whenever awaiting is "city" the city_id is unset.
C9_AwaitingGuards ==
    \A u \in DOMAIN state :
        /\ state[u].awaiting # None => state[u].age = NoneInt
        /\ state[u].awaiting = "city" => state[u].city_id = NoneInt

\* C9, amended: whenever awaiting is "city" the city_id is unset; a step that
\* leaves awaiting set never stores a new age (the age is None or the one
\* stored before the step); the age changes only when an answer to the age
\* prompt is accepted or when change settings resets it to None.  The start
\* command keeps the age of the previous pass.
C9_AwaitingGuardsAmended ==
    [][\A u \in DOMAIN state' :
          /\ state'[u].awaiting = "city" => state'[u].city_id = NoneInt
          /\ state'[u].awaiting # None => state'[u].age \in {NoneInt, St(u).age}
          /\ Handled(u, "handle_change_settings") => state'[u].age = NoneInt
          /\ state'[u].age # St(u).age =>
                \/ Handled(u, "handle_age") /\ last_event'.result = "ok"
                \/ Handled(u, "handle_change_settings")]_vars

\* A start command has restarted onboarding for a user whose age was accepted
\* in the previous pass: awaiting is set and the age is still stored.
C9_Witness ==
    /\ last_event.handler = "handle_start"
    /\ last_event.result = "ok"
    /\ St(last_event.user).awaiting # None
    /\ St(last_event.user).age # NoneInt

\* C10: a discovery invocation for a user whose age is not resolved returns
\* None at once: no search request, no write to the tables, and the user's
\* DialogState (offset and last_candidate_id included) as it was.
C10_NotReadyDiscovery ==
    [][\A u \in Users :
          (Handled(u, "handle_next") /\ St(u).age = NoneInt)
          => (/\ last_event'.result = "none"
              /\ last_event'.requests = 0
              /\ db' = db
              /\ state'[u] = St(u))]_vars

\* "Next" was handled for a user without an age.
C10_Witness ==
    /\ last_event.handler = "handle_next"
    /\ last_event.result = "none"
    /\ last_event.requests = 0
    /\ St(last_event.user).age = NoneInt

\* C11: the candidate a discovery invocation returns is the first profile, in
\* the order the search returned them, that is not access-restricted, not in
\* the user's blacklist and not in the user's shown set: every profile the
\* invocation went through before it is excluded, all earlier pages were
\* skipped, no request follows the page that holds it, and an invocation
\* returns at most one candidate.
C11_FirstFit ==
    [][\A u \in Users :
          LET e == last_event'
              excluded(p) ==
                  \/ p.restricted
                  \/ BagIn(Pair(u, p.id), db.blacklist)
                  \/ \E r \in BagToSet(db.search_history) :
                        r.user_id = u /\ r.candidate_id = p.id
          IN  /\ BagCardinality(returned') <= BagCardinality(returned) + 1
              /\ (Handled(u, "handle_next") /\ e.result = "found") =>
                    /\ e.scan # <<>>
                    /\ e.scan[Len(e.scan)].id = e.cand
                    /\ ~excluded(e.scan[Len(e.scan)])
                    /\ \A j \in 1..(Len(e.scan) - 1) : excluded(e.scan[j])
                    /\ e.requests = e.pages
                    /\ e.skipped = e.pages - 1
                    /\ returned' = returned (+) SetToBag({<<u, e.cand>>})
              /\ (Handled(u, "handle_next") /\ e.result # "found") =>
                    returned' = returned]_vars

\* A discovery skipped a whole page and then a profile of the next page
\* before it returned a candidate.
C11_Witness ==
    /\ last_event.handler = "handle_next"
    /\ last_event.result = "found"
    /\ last_event.skipped >= 1
    /\ Len(last_event.scan) = 2
    /\ last_event.scan[2].id = last_event.cand

\* C12: the pagination offset of a user starts at 0, grows by exactly 50 for
\* every search request a discovery invocation issues, whatever the request
\* brought, and no command (start and repeated discovery included) ever
\* lowers it or changes it otherwise.
C12_OffsetAdvance ==
    [][variant = "body1" =>
          \A u \in DOMAIN state' :
              /\ u \notin DOMAIN state => St(u).offset = 0
              /\ state'[u].offset >= St(u).offset
              /\ state'[u].offset =
                     St(u).offset + IF Handled(u, "handle_next")
                                    THEN 50 * last_event'.requests
                                    ELSE 0]_vars

\* C13: a reaction recorded a second time in a row for the same user and
\* candidate leaves favorites, blacklist and search_history as the first
\* left them; and no reaction command, accepted or not, changes a shown_at,
\* adds or removes a search_history row, changes awaiting or changes
\* last_candidate_id.
C13_ReactionIdempotentNarrow ==
    [][\A u \in Users :
          LET e == last_event'
              shown(d) == {<<r.user_id, r.candidate_id, r.shown_at>> :
                              r \in BagToSet(d.search_history)}
          IN  (Handled(u, "handle_favorite") \/ Handled(u, "handle_blacklist")) =>
                /\ shown(db') = shown(db)
                /\ BagCardinality(db'.search_history) = BagCardinality(db.search_history)
                /\ state'[u].awaiting = St(u).awaiting
                /\ state'[u].last_candidate_id = St(u).last_candidate_id
                /\ (/\ e.result = "ok" /\ last_event.result = "ok"
                    /\ last_event.user = u /\ last_event.handler = e.handler
                    /\ last_event.cand = e.cand)
                   => db' = db]_vars

\* The same reaction was recorded twice in a row for a shown candidate.
C13_Witness ==
    /\ last_event.handler \in {"handle_favorite", "handle_blacklist"}
    /\ last_event.result = "ok"
    /\ last_event.repeat
    /\ HistRows(db, last_event.user, last_event.cand) # {}

\* C14: a change-settings command that is accepted resets the age to None,
\* target_sex to ALL and last_candidate_id to None and leaves awaiting =
\* "sex"; city_id, city_title and every table are as they were.
C14_ChangeSettingsFrame ==
    [][\A u \in Users :
          Handled(u, "handle_change_settings") =>
              /\ state'[u].age = NoneInt
              /\ state'[u].target_sex = VKSex_ALL
              /\ state'[u].last_candidate_id = NoneInt
              /\ state'[u].awaiting = "sex"
              /\ state'[u].city_id = St(u).city_id
              /\ state'[u].city_title = St(u).city_title
              /\ db' = db]_vars

\* Change settings was accepted for a user who had been shown a candidate
\* (so was Ready, with a city title, and has a search_history row).
C14_Witness ==
    /\ last_event.handler = "handle_change_settings"
    /\ St(last_event.user).awaiting = "sex"
    /\ St(last_event.user).age = NoneInt
    /\ St(last_event.user).city_title # NoneText
    /\ \E c \in Cands : HistRows(db, last_event.user, c) # {}

\* C15: no error raised while a message is handled (a failed write, a failed
\* upstream call, a refused input) stops the event loop: in every reachable
\* state run() is still consuming messages.
C15_LoopSurvives == running

\* C16: messages are handled one at a time in arrival order: at most one
\* handler is running at any time, the k-th message handled is the k-th that
\* arrived, and between the moment the loop takes a message and the moment
\* its handler returns nothing else touches the DialogStates or the tables.
C16_OneAtATime ==
    [][/\ Cardinality(inflight) <= 1
       /\ Cardinality(inflight') <= 1
       /\ nevents' # nevents =>
             \E m \in inflight :
                 /\ inflight = {m}
                 /\ m.n = nevents + 1
                 /\ last_event'.user = m.user
                 /\ inflight' = {}
                 /\ \A i \in 1..Len(inbox) : inbox[i].n > m.n
       /\ nevents' = nevents => state' = state /\ db' = db]_vars

\* A handler is running for a user while a later message of the same user
\* waits in the long poll.
C16_Witness ==
    /\ nevents >= 1
    /\ \E m \in inflight : \E i \in 1..Len(inbox) : inbox[i].user = m.user
    /\ \E u \in DOMAIN state : state[u].awaiting # None

\* C17: every candidate in a user's favorites or blacklist has a
\* search_history row of that same user, and is a candidate a discovery
\* invocation returned to that user before: reacted implies shown.
C17_ReactedImpliesShown ==
    \A r \in BagToSet(db.favorites) \cup BagToSet(db.blacklist) :
        /\ \E h \in BagToSet(db.search_history) :
              h.user_id = r.user_id /\ h.candidate_id = r.candidate_id
        /\ BagIn(<<r.user_id, r.candidate_id>>, returned)

\* A reaction was recorded on a candidate while another one has been shown
\* without a reaction.
C17_Witness ==
    /\ last_event.handler \in {"handle_favorite", "handle_blacklist"}
    /\ last_event.result = "ok"
    /\ BagToSet(db.favorites) \cup BagToSet(db.blacklist) # {}
    /\ BagCardinality(db.search_history) = 2

\* C18: in every reachable state a search_history row whose reaction is the
\* favorite one ("licked" in src/basic_code.py, "liked" in src/repo.py) has
\* its candidate in that user's favorites, and a row whose reaction is
\* "blocked" has its candidate in that user's blacklist.
C18_ReactionImpliesMembership ==
    \A h \in BagToSet(db.search_history) :
        /\ h.reaction \in {"licked", "liked"} =>
              BagIn(Pair(h.user_id, h.candidate_id), db.favorites)
        /\ h.reaction = "blocked" =>
              BagIn(Pair(h.user_id, h.candidate_id), db.blacklist)

\* A candidate was put on the blacklist after it had been made a favorite:
\* its row says "blocked".
C18_Witness ==
    /\ last_event.handler = "handle_blacklist"
    /\ last_event.result = "ok"
    /\ StoredReaction(db, last_event.user, last_event.cand) = "blocked"
    /\ BagIn(Pair(last_event.user, last_event.cand), db.favorites)

\* C19: after any sequence of shows and reactions there is at most one
\* search_history row for every (user, candidate) and its reaction is a
\* single value; from every reachable state of the tables, marking a pair
\* shown or setting a reaction on it leaves at most one row, and a reaction
\* that is set replaces the one stored before.  (Repo.add_favorite and
\* Repo.add_blacklist return before _set_reaction when the row of their own
\* table exists: the reaction is then not set at all.)
C19_SingleRecord ==
    LET rows(d, u, c) ==
            {r \in BagToSet(d.search_history) : r.user_id = u /\ r.candidate_id = c}
        count(d, u, c) ==
            BagCardinality(d.search_history)
              - BagCardinality([r \in BagToSet(d.search_history) \ rows(d, u, c) |->
                                   CopiesIn(r, d.search_history)])
        one(d, u, c, x) ==
            /\ count(d, u, c) = 1
            /\ \A r \in rows(d, u, c) : r.reaction = x
    IN  \A u \in Users, c \in Cands :
            /\ count(db, u, c) <= 1
            /\ \A r \in rows(db, u, c) :
                  r.reaction \in {None, "licked", "liked", "blocked"}
            /\ \A x \in {"licked", "liked", "blocked"} :
                  /\ one(Repo_set_reaction(db, u, c, nevents + 1, x), u, c, x)
                  /\ IF rows(db, u, c) # {}
                     THEN one(SearchHistoryRepository_set_reaction(db, u, c, x), u, c, x)
                     ELSE count(SearchHistoryRepository_set_reaction(db, u, c, x), u, c) = 0
            /\ one(SearchHistoryRepository_add_view(db, u, c, nevents + 1),
                   u, c, StoredReaction(db, u, c))
            /\ one(Repo_mark_shown(db, u, c, nevents + 1, FALSE).db,
                   u, c, StoredReaction(db, u, c))

\* A Favorite reaction has replaced the "blocked" of a candidate that is on
\* the blacklist: still one row.
C19_Witness ==
    /\ last_event.handler = "handle_favorite"
    /\ last_event.result = "ok"
    /\ BagIn(Pair(last_event.user, last_event.cand), db.blacklist)
    /\ StoredReaction(db, last_event.user, last_event.cand) \in {"licked", "liked"}
    /\ Cardinality(HistRows(db, last_event.user, last_event.cand)) = 1

\* C20: while awaiting is set for a user, every message of that user, a
\* command word included, goes to the handler of that onboarding step
\* (handle_sex, handle_age or handle_city) and to no command handler: no
\* discovery, no reaction, no table is written and nothing is returned.
C20_OnboardingConsumes ==
    [][\A u \in Users :
          (nevents' # nevents /\ last_event'.user = u /\ St(u).awaiting # None) =>
              /\ last_event'.handler =
                     CASE St(u).awaiting = "sex" -> "handle_sex"
                       [] St(u).awaiting = "age" -> "handle_age"
                       [] St(u).awaiting = "city" -> "handle_city"
              /\ last_event'.handler \notin
                     {"handle_start", "handle_change_settings", "handle_next",
                      "handle_favorite", "handle_blacklist", "handle_list_favorites",
                      "help"}
              /\ last_event'.requests = 0
              /\ db' = db
              /\ returned' = returned
              /\ state'[u].last_candidate_id = St(u).last_candidate_id]_vars

\* A command word was sent by a user who has a candidate to react to and is
\* asked for the age: it was taken as the answer and refused.
C20_Witness ==
    /\ last_event.handler = "handle_age"
    /\ last_event.command
    /\ last_event.result = "rejected"
    /\ St(last_event.user).awaiting = "age"
    /\ St(last_event.user).last_candidate_id # NoneInt

\* C21: for a user who is Ready (awaiting is None and the age is set) the
\* commands next, favorite, blacklist and list favorites, and a text that is
\* no command, leave awaiting, the age, target_sex, city_id and city_title
\* as they were.
C21_ReadyCommandsFrame ==
    [][\A u \in Users :
          (/\ St(u).awaiting = None /\ St(u).age # NoneInt
           /\ last_event'.user = u /\ nevents' # nevents
           /\ last_event'.handler \in
                  {"handle_next", "handle_favorite", "handle_blacklist",
                   "handle_list_favorites", "help"})
          => (/\ state'[u].awaiting = None
              /\ state'[u].age = St(u).age
              /\ state'[u].city_id = St(u).city_id
              /\ state'[u].city_title = St(u).city_title
              /\ variant = "basic" => state'[u].target_sex = St(u).target_sex)]_vars

\* A Ready user who asked for women was shown a candidate and is still
\* Ready with the same choice.
C21_Witness ==
    /\ last_event.handler = "handle_next"
    /\ last_event.result = "found"
    /\ variant = "basic"
    /\ St(last_event.user).awaiting = None
    /\ St(last_event.user).age = 25
    /\ St(last_event.user).target_sex = VKSex_WOMEN

\* C22: at the sex prompt a text that holds none of the three tokens (for
\* women, for men, for anyone) leaves the whole DialogState as it was; a text
\* that holds one sets target_sex by the first rule that matches, in the
\* order women, men, anyone, and sets awaiting to "age".
C22_SexSelfLoop ==
    [][\A u \in Users, t \in World_ages.texts :
          handle_sex_basic(u, t) =>
              LET low == Lower(Strip(t))
                  women == Contains(low, S_zhen)
                  men == Contains(low, S_muzh)
                  anyone == Contains(low, S_nevazh)
              IN  IF ~women /\ ~men /\ ~anyone
                  THEN state'[u] = St(u) /\ state'[u].awaiting = "sex"
                  ELSE /\ state'[u].awaiting = "age"
                       /\ state'[u].target_sex =
                              IF women THEN 1 ELSE IF men THEN 2 ELSE 0
                       /\ [state'[u] EXCEPT !.awaiting = "sex",
                                            !.target_sex = St(u).target_sex] = St(u)]_vars

\* The answer for men was accepted at the sex prompt.
C22_Witness ==
    /\ last_event.handler = "handle_sex"
    /\ last_event.result = "ok"
    /\ St(last_event.user).target_sex = VKSex_MEN
    /\ St(last_event.user).awaiting = "age"

\* C23: at the city prompt a text for which database.getCities finds no city
\* leaves the whole DialogState as it was (awaiting stays "city", city_id
\* stays unset); a text that names a city sets city_id and city_title and
\* sets awaiting to "age", and changes nothing else.
C23_CitySelfLoop ==
    [][\A u \in Users :
          Handled(u, "handle_city") =>
              /\ St(u).awaiting = "city"
              /\ St(u).city_id = NoneInt
              /\ IF last_event'.result = "ok"
                 THEN /\ state'[u].city_id \in Cities
                      /\ state'[u].city_title # NoneText
                      /\ state'[u].awaiting = "age"
                      /\ [state'[u] EXCEPT !.city_id = NoneInt,
                                           !.city_title = St(u).city_title,
                                           !.awaiting = "city"] = St(u)
                 ELSE state'[u] = St(u)]_vars

\* A city was found for the answer at the city prompt.
C23_Witness ==
    /\ last_event.handler = "handle_city"
    /\ last_event.result = "ok"
    /\ St(last_event.user).city_id = 2
    /\ St(last_event.user).city_title = Title_spb
    /\ St(last_event.user).awaiting = "age"

\* C24 as stated: once a start command is handled, awaiting is "sex", or
\* "city" when no city could be resolved for the user.  Violated in
\* src/bot_body1.py, whose handle_start goes to the age prompt when the
\* profile names a city.
C24_StartEntersSexOrCity ==
    [][\A u \in Users :
          (Handled(u, "handle_start") /\ last_event'.result = "ok")
          => \/ state'[u].awaiting = "sex"
             \/ state'[u].awaiting = "city" /\ state'[u].city_id = NoneInt]_vars

\* C24, amended: a start command that is handled with the user's profile
\* obtained and the user stored leaves the user, within the same message, at
\* the first prompt of the variant: the sex prompt in src/basic_code.py (the
\* city is always set there); in src/bot_body1.py the city prompt when no
\* city is known and the age prompt otherwise.  When the profile cannot be
\* obtained src/bot_body1.py leaves the DialogState as it was.
C24_StartEntersFirstPrompt ==
    [][\A u \in Users :
          Handled(u, "handle_start") =>
              /\ nevents' = nevents + 1
              /\ last_event'.result = "ok" =>
                    IF variant = "basic"
                    THEN state'[u].awaiting = "sex" /\ state'[u].city_id # NoneInt
                    ELSE IF state'[u].city_id = NoneInt
                    THEN state'[u].awaiting = "city"
                    ELSE state'[u].awaiting = "age"
              /\ (last_event'.result # "ok" /\ variant = "body1") =>
                    state'[u] = St(u)]_vars

\* A start command of src/bot_body1.py found the city in the profile and went
\* to the age prompt.
C24_Witness ==
    /\ variant = "body1"
    /\ last_event.handler = "handle_start"
    /\ last_event.result = "ok"
    /\ St(last_event.user).city_id = 1
    /\ St(last_event.user).awaiting = "age"

\* C25: when mark_shown raises for candidate c during a discovery invocation
\* for user u, the invocation does not return c, last_candidate_id of u is
\* not set to c (it keeps its value), no view of c by u is stored, and c is
\* as eligible for u afterwards as it was before: not shown and not
\* blacklisted.
C25_FailedMarkNotShown ==
    [][\A u \in Users, c \in Cands :
          (Handled(u, "handle_next") /\ nevents' # nevents /\ last_event'.unmarked = c)
          => /\ last_event'.result = "raised"
             /\ last_event'.cand = NoneInt
             /\ returned' = returned
             /\ state'[u].last_candidate_id = St(u).last_candidate_id
             /\ db'.search_history = db.search_history
             /\ \A r \in BagToSet(db'.search_history) :
                    ~(r.user_id = u /\ r.candidate_id = c)
             /\ \A r \in BagToSet(db'.blacklist) :
                    ~(r.user_id = u /\ r.candidate_id = c)]_vars

\* mark_shown raised for a candidate while another one was the last shown.
C25_Witness ==
    /\ last_event.handler = "handle_next"
    /\ last_event.unmarked = 2
    /\ St(last_event.user).last_candidate_id = 1
    /\ \A r \in BagToSet(db.search_history) : r.candidate_id # 2

\* C26: a discovery invocation whose search request fails (more requests
\* were issued than pages received: _request answered {} in src/vkapi.py,
\* search_users raised in src/bot_body1.py) returns None as it does for an
\* empty page, writes no candidate, view, favorite or blacklist row, and
\* leaves last_candidate_id as it was.
C26_FailedSearchIsEmpty ==
    [][\A u \in Users :
          (/\ Handled(u, "handle_next") /\ nevents' # nevents
           /\ last_event'.requests > last_event'.pages)
          => /\ last_event'.result = "none"
             /\ last_event'.cand = NoneInt
             /\ returned' = returned
             /\ db' = db
             /\ state'[u].last_candidate_id = St(u).last_candidate_id]_vars

\* A search request failed for a user who had been shown a candidate.
C26_Witness ==
    /\ last_event.handler = "handle_next"
    /\ last_event.requests > last_event.pages
    /\ last_event.result = "none"
    /\ St(last_event.user).last_candidate_id = 1
    /\ db.search_history # EmptyBag

\* C27: when the commit of add_favorite or add_blacklist raises, nothing of
\* the transaction is stored: the favorites and blacklist tables and the
\* views with their reactions are what they were before the command.
C27_ReactionAtomic ==
    [][\A u \in Users :
          (/\ Handled(u, "handle_favorite") \/ Handled(u, "handle_blacklist")
           /\ nevents' # nevents
           /\ last_event'.result = "raised")
          => /\ db'.favorites = db.favorites
             /\ db'.blacklist = db.blacklist
             /\ db'.search_history = db.search_history]_vars

\* The commit of a reaction on a shown candidate raised: the candidate has
\* its view without a reaction and is in neither table.
C27_Witness ==
    /\ last_event.handler \in {"handle_favorite", "handle_blacklist"}
    /\ last_event.result = "raised"
    /\ last_event.cand # NoneInt
    /\ \E r \in BagToSet(db.search_history) :
          r.candidate_id = last_event.cand /\ r.reaction = None
    /\ db.favorites = EmptyBag
    /\ db.blacklist = EmptyBag

\* C28: handling a message of user a changes neither the DialogState of
\* another user b (b does not even get one) nor the views (shown), favorites
\* and blacklist rows stored for b.
C28_UserIsolation ==
    [][\A a \in UsersTwo : \A b \in UsersTwo \ {a} :
          LET rows(t) == {r \in BagToSet(t) : r.user_id = b}
              same(t1, t2) ==
                  /\ rows(t1) = rows(t2)
                  /\ \A r \in rows(t1) : CopiesIn(r, t1) = CopiesIn(r, t2)
          IN  (last_event'.user = a /\ nevents' # nevents)
              => /\ (b \in DOMAIN state') = (b \in DOMAIN state)
                 /\ b \in DOMAIN state => state'[b] = state[b]
                 /\ same(db'.search_history, db.search_history)
                 /\ same(db'.favorites, db.favorites)
                 /\ same(db'.blacklist, db.blacklist)]_vars

\* User 2 answered a prompt of the settings dialogue while user 1 had been
\* shown a candidate.
C28_Witness ==
    /\ last_event.user = 2
    /\ last_event.handler \in {"handle_age", "handle_sex", "handle_city"}
    /\ 1 \in DOMAIN state
    /\ St(1).last_candidate_id # NoneInt
    /\ St(1).awaiting = None
    /\ St(2).awaiting # St(1).awaiting
    /\ \E r \in BagToSet(db.search_history) : r.user_id = 1

\* C29: the sex a discovery invocation searches for is the stored
\* target_sex in src/basic_code.py; in src/bot_body1.py it follows from the
\* sex of the user's own profile: men (2) for a woman (1), women (1) for a
\* man (2), anyone (0) when the profile's sex is unknown.
C29_EffectiveSearchSex ==
    [][\A u \in Users :
          (/\ Handled(u, "handle_next") /\ nevents' # nevents
           /\ last_event'.requests > 0)
          => IF variant = "basic"
             THEN /\ last_event'.query.sex = St(u).target_sex
                  /\ last_event'.user_sex = NoneInt
             ELSE /\ last_event'.user_sex \in {0, 1, 2}
                  /\ last_event'.user_sex = 1 => last_event'.query.sex = 2
                  /\ last_event'.user_sex = 2 => last_event'.query.sex = 1
                  /\ last_event'.user_sex = 0 => last_event'.query.sex = 0]_vars

\* A man was shown a candidate by src/bot_body1.py: the search was for women.
C29_Witness ==
    /\ variant = "body1"
    /\ last_event.handler = "handle_next"
    /\ last_event.result = "found"
    /\ last_event.user_sex = 2
    /\ last_event.query.sex = VKSex_WOMEN

\* C30: no command removes a pair from the shown, favorites or blacklist
\* set: every (user, candidate) viewed, favorited or blacklisted before a
\* step is so after it.
C30_SetsOnlyGrow ==
    [][LET pairs(t) == {Pair(r.user_id, r.candidate_id) : r \in BagToSet(t)}
       IN  /\ pairs(db.search_history) \subseteq pairs(db'.search_history)
           /\ pairs(db.favorites) \subseteq pairs(db'.favorites)
           /\ pairs(db.blacklist) \subseteq pairs(db'.blacklist)]_vars

\* A candidate that is a favorite was blacklisted as well, and a second
\* candidate has been shown since.
C30_Witness ==
    /\ \E u \in Users, c \in Cands :
          /\ BagIn(Pair(u, c), db.favorites)
          /\ BagIn(Pair(u, c), db.blacklist)
          /\ \E r \in BagToSet(db.search_history) :
                r.user_id = u /\ r.candidate_id # c
    /\ last_event.handler = "handle_next"

\* C31: a candidate has a view stored for a user only if a discovery
\* invocation returned it to that user.  Violated in src/bot_body1.py: the
\* photos are fetched after mark_shown has committed, and when that call
\* raises the view stays while nothing is returned.
C31_ShownOnlyIfReturned ==
    \A r \in BagToSet(db.search_history) :
        BagIn(<<r.user_id, r.candidate_id>>, returned)

\* C32: in src/bot_body1.py a discovery invocation starts its requests at
\* the stored offset; one that returns a candidate leaves the offset at the
\* start of the page after the page that held the candidate (the pages
\* before it were skipped whole); and no step lowers the offset.  So no later
\* invocation of the user requests the page of a returned candidate again:
\* the profiles behind the candidate on that page are never scanned.
C32_RestOfPageSkipped ==
    [][variant = "body1" =>
          \A u \in Users :
              /\ u \in DOMAIN state' => state'[u].offset >= St(u).offset
              /\ (Handled(u, "handle_next") /\ nevents' # nevents) =>
                    /\ last_event'.start_offset = St(u).offset
                    /\ last_event'.result = "found" =>
                          /\ last_event'.pages >= 1
                          /\ last_event'.skipped = last_event'.pages - 1
                          /\ state'[u].offset
                                 = St(u).offset + PAGE_SIZE * last_event'.pages
                          /\ state'[u].offset
                                 > St(u).offset + PAGE_SIZE * (last_event'.pages - 1)]_vars

\* A second discovery started behind the page of the first candidate and
\* returned a candidate of the page after an empty one.
C32_Witness ==
    /\ variant = "body1"
    /\ last_event.handler = "handle_next"
    /\ last_event.result = "found"
    /\ last_event.start_offset = 50
    /\ last_event.pages = 2
    /\ St(last_event.user).offset = 150
    /\ BagCardinality(returned) = 2

\* C33: a discovery invocation that returns nobody (no new candidate, a
\* failed search, or an exception caught by handle_next) leaves
\* last_candidate_id as it was, and one that returns a candidate sets it to
\* exactly that candidate; a favorite or blacklist command is applied to
\* last_candidate_id as stored, so right after a "no candidates left" answer
\* it is applied to the candidate shown before.
C33_LastCandidateFrame ==
    [][\A u \in Users :
          LET e == last_event'
          IN  /\ (Handled(u, "handle_next") /\ nevents' # nevents) =>
                    IF e.result = "found"
                    THEN e.cand \in Cands /\ state'[u].last_candidate_id = e.cand
                    ELSE state'[u].last_candidate_id = St(u).last_candidate_id
              /\ (/\ Handled(u, "handle_favorite") \/ Handled(u, "handle_blacklist")
                  /\ nevents' # nevents /\ e.result = "ok") =>
                    /\ e.cand = St(u).last_candidate_id
                    /\ e.cand \in Cands
                    /\ state'[u].last_candidate_id = e.cand
                    /\ BagIn(Pair(u, e.cand),
                             IF e.handler = "handle_favorite"
                             THEN db'.favorites ELSE db'.blacklist)]_vars

\* A discovery that issued a request returned nobody while the candidate
\* shown before is still the last candidate and has no reaction yet.
C33_Witness ==
    /\ last_event.handler = "handle_next"
    /\ last_event.result = "none"
    /\ last_event.requests > 0
    /\ St(last_event.user).last_candidate_id = 2
    /\ db.favorites = EmptyBag /\ db.blacklist = EmptyBag
    /\ running

\* C34: awaiting changes only along the order of the settings dialogue: from
\* None to the first prompt of the variant by a start or change-settings
\* command (the sex prompt in src/basic_code.py; in src/bot_body1.py the city
\* prompt, or the age prompt when the city is known), from "city" to "age"
\* by a text that names a city, from "sex" to "age" by a text that matches,
\* and from "age" to None by a valid age, which is then the stored age.  No
\* step moves it back, and None is reached only from "age".
C34_AwaitingOrder ==
    [][\A u \in DOMAIN state' :
          LET a == St(u).awaiting
              b == state'[u].awaiting
              e == last_event'
          IN  \/ b = a
              \/ /\ a = None
                 /\ Handled(u, "handle_start") \/ Handled(u, "handle_change_settings")
                 /\ IF variant = "basic" THEN b = "sex"
                    ELSE \/ b = "city" /\ state'[u].city_id = NoneInt
                         \/ b = "age" /\ state'[u].city_id # NoneInt
              \/ /\ a = "city" /\ b = "age"
                 /\ Handled(u, "handle_city") /\ e.result = "ok"
              \/ /\ a = "sex" /\ b = "age"
                 /\ Handled(u, "handle_sex") /\ e.result = "ok"
              \/ /\ a = "age" /\ b = None
                 /\ Handled(u, "handle_age") /\ e.result = "ok"
                 /\ state'[u].age \in AGE_MIN..AGE_MAX]_vars

\* A second pass through the settings dialogue ended with an accepted age:
\* the user had been shown a candidate before.
C34_Witness ==
    /\ last_event.handler = "handle_age"
    /\ last_event.result = "ok"
    /\ St(last_event.user).awaiting = None
    /\ St(last_event.user).age = 25
    /\ db.search_history # EmptyBag

C36_AgeAndBandInRange ==
    /\ \A u \in DOMAIN state :
          state[u].age = NoneInt \/ (state[u].age >= 18 /\ state[u].age <= 99)
    /\ (last_event.handler = "handle_next" /\ last_event.requests > 0)
       => /\ 18 <= last_event.query.age_from
          /\ last_event.query.age_from <= last_event.query.age_to
          /\ last_event.query.age_to <= 99
          /\ last_event.query.age_to - last_event.query.age_from <= 10

\* A search was issued for a user of age 97: the band ends at 99.
C36_Witness ==
    /\ last_event.handler = "handle_next"
    /\ last_event.requests > 0
    /\ St(last_event.user).age = 97
    /\ last_event.query.age_from = 92
    /\ last_event.query.age_to = 99
    /\ variant = "body1"

\* C37: every reaction written to a view is a value the constraint
\* check_reaction of SearchHistory accepts: NULL, 'licked' or 'blocked'.
\* Violated in src/repo.py, whose add_favorite writes 'liked'.
C37_ReactionValuesAccepted ==
    \A r \in BagToSet(db.search_history) : r.reaction \in {None, "licked", "blocked"}

====
